---- MODULE Spec2Model ----
(***************************************************************************)
(* Rate limiter of the Quantify quiz platform: the RateLimit table         *)
(* (models/rate_limit.py), the helpers of utils/rate_limiter.py and the    *)
(* login route that uses them (routes/auth.py).                            *)
(*                                                                         *)
(* Time is counted in whole seconds since the start of the run.  The       *)
(* database table is kept as, for every (identifier, identifier_type,      *)
(* endpoint) triple, the list of its rows in primary-key order: the table  *)
(* has no unique constraint, so the list may in principle hold several.    *)
(* A run keeps rows for the triples of one scope (DOMAIN rows); a lookup   *)
(* of any other triple finds no row.                                       *)
(***************************************************************************)
EXTENDS Integers, Sequences, FiniteSets, TLC

VARIABLES
    now,     \* datetime.utcnow(), in seconds
    rows,    \* the rate_limits table: triple -> sequence of rows
    ret,     \* what the last call returned (and which call it was)
    streak,  \* history: failures recorded in a row since the triple was clean
    pending, \* requests between their lookup and their commit
    otps,    \* the otp_codes table
    session, \* the Flask session of the one browser
    denied,  \* history: codes an OTP route turned down in a row
    attempts, \* the quiz_attempts table, with the questions of each attempt
    results  \* the quiz_results table

vars == <<now, rows, ret, streak, pending, otps, session, denied, attempts,
          results>>

(***************************************************************************)
(* Bounds of the model.                                                    *)
(***************************************************************************)
\* within a day the clock makes this many quarter-hour steps past the end of
\* the longest block that can start at midnight
MaxPast == 1
\* the clock may jump over at most this many whole days
MaxDays == 1
\* attempt_count is not driven above this value
MaxAttempts == 6
\* the rows of the table of one-time codes
MaxOtps == 2
\* the codes a route turned down in a row are counted up to this value
MaxDenied == 3
\* the rows of quiz_attempts
MaxQuizAttempts == 2

(***************************************************************************)
(* Program constants.                                                      *)
(***************************************************************************)
TimeWindow == 900
DefaultHoursOld == 24
SecondsPerHour == 3600
SecondsPerDay == 86400
\* the value None of a nullable DateTime column or of a nullable status field
None == -1
\* OTP_EXPIRY_MINUTES, in seconds
OtpExpirySeconds == 300

\* the steps of the clock: the calls are made on a grid of 7.5 minutes, those
\* of the login route on a grid of 15 minutes
Steps == {450, 900}
LoginSteps == {900}

\* identifiers are strings, kept as sequences of characters
IpAddr == <<"1">>
NameA == <<"a">>
NameSpA == <<" ", "a">>
Identifiers == {IpAddr, NameA, NameSpA}
IdentifierTypes == {"ip", "username"}
Endpoints == {"login", "forgot_password", "reset_password", "verify_2fa",
              "register", "resend_otp"}
Triples == Identifiers \X IdentifierTypes \X Endpoints

\* the scopes of the runs: one triple of every endpoint for the calls of the
\* RateLimit class, the two keys of a login for the login route
Scopes == {{<<NameA, "username", e>>} : e \in Endpoints}
LoginScope == {<<IpAddr, "ip", "login">>, <<NameA, "username", "login">>}

EndpointOf(t) == t[3]

(***************************************************************************)
(* RateLimit._get_limit_for_endpoint, _get_block_duration_for_endpoint     *)
(***************************************************************************)
Limit(endpoint) ==
    CASE endpoint = "login" -> 5
      [] endpoint = "forgot_password" -> 3
      [] endpoint = "reset_password" -> 3
      [] endpoint = "verify_2fa" -> 3
      [] endpoint = "register" -> 5
      [] OTHER -> 5

\* durations with the hours of two endpoints taken for minutes
BlockDurationMinutes(endpoint) ==
    CASE endpoint = "login" -> 30 * 60
      [] endpoint = "forgot_password" -> 60
      [] endpoint = "reset_password" -> 60
      [] endpoint = "verify_2fa" -> 15 * 60
      [] endpoint = "register" -> 30 * 60
      [] OTHER -> 30 * 60

BlockDuration(endpoint) ==
    CASE endpoint = "login" -> 30 * 60
      [] endpoint = "forgot_password" -> SecondsPerHour
      [] endpoint = "reset_password" -> SecondsPerHour
      [] endpoint = "verify_2fa" -> 15 * 60
      [] endpoint = "register" -> 30 * 60
      [] OTHER -> 30 * 60

Max(a, b) == IF a >= b THEN a ELSE b

(***************************************************************************)
(* The table.                                                              *)
(***************************************************************************)
RECURSIVE SumLen(_, _)
SumLen(tbl, S) ==
    IF S = {} THEN 0
    ELSE LET t == CHOOSE x \in S : TRUE
         IN  Len(tbl[t]) + SumLen(tbl, S \ {t})

RecordCount(tbl) == SumLen(tbl, DOMAIN tbl)

RowsOf(tbl, t) == IF t \in DOMAIN tbl THEN tbl[t] ELSE <<>>

\* a lookup that never matches
FirstMiss(tbl, t) == {0}

\* query.filter_by(...).first(): 0 stands for "no row", otherwise the index of
\* the row returned.  The query has no ORDER BY, so any matching row may come.
First(tbl, t) == IF RowsOf(tbl, t) = <<>> THEN {0} ELSE 1..Len(tbl[t])

RemoveAt(s, i) == [j \in 1..(Len(s) - 1) |-> IF j < i THEN s[j] ELSE s[j + 1]]

\* a sweep that measures the age of a row from its first_attempt
SweptByFirst(tbl, time, hours_old) ==
    LET cutoff_time == time - hours_old * SecondsPerHour
        Keep(r) == ~(r.first_attempt < cutoff_time)
    IN  [t \in DOMAIN tbl |-> SelectSeq(tbl[t], Keep)]

\* a sweep that also takes the rows exactly hours_old old
SweptInclusive(tbl, time, hours_old) ==
    LET cutoff_time == time - hours_old * SecondsPerHour
        Keep(r) == ~(r.last_attempt <= cutoff_time)
    IN  [t \in DOMAIN tbl |-> SelectSeq(tbl[t], Keep)]

\* RateLimit.cleanup_old_records: the table after the sweep
Swept(tbl, time, hours_old) ==
    LET cutoff_time == time - hours_old * SecondsPerHour
        Keep(r) == ~(r.last_attempt < cutoff_time)
    IN  [t \in DOMAIN tbl |-> SelectSeq(tbl[t], Keep)]

(***************************************************************************)
(* RateLimit.get_status                                                    *)
(***************************************************************************)
CleanStatus(endpoint) ==
    [is_blocked |-> FALSE,
     attempts_used |-> 0,
     attempts_remaining |-> Limit(endpoint),
     total_attempts_allowed |-> Limit(endpoint),
     blocked_until |-> None,
     time_remaining |-> None,
     time_remaining_minutes |-> None]

\* int(time_remaining.total_seconds() / 60) + 1
RemainingMinutes(seconds) == (seconds \div 60) + 1

\* the record as get_status leaves it: an expired block is reset
Expired(record, time) ==
    record.blocked_until # None /\ time >= record.blocked_until

\* an expiry that clears the block and keeps the count
AfterExpiryKeepCount(record, time) ==
    IF Expired(record, time)
    THEN [record EXCEPT !.blocked_until = None]
    ELSE record

AfterExpiry(record, time) ==
    IF Expired(record, time)
    THEN [record EXCEPT !.blocked_until = None, !.attempt_count = 0]
    ELSE record

\* a status that always shows the stored count
StatusOfStored(record, endpoint, time) ==
    LET limit == Limit(endpoint)
        blocked == record.blocked_until # None /\ time < record.blocked_until
        after == AfterExpiry(record, time)
        attempts_used == after.attempt_count
    IN  [is_blocked |-> blocked,
         attempts_used |-> attempts_used,
         attempts_remaining |-> Max(0, limit - attempts_used),
         total_attempts_allowed |-> limit,
         blocked_until |-> after.blocked_until,
         time_remaining |->
             IF blocked THEN record.blocked_until - time ELSE None,
         time_remaining_minutes |->
             IF blocked THEN RemainingMinutes(record.blocked_until - time)
             ELSE None]

StatusOf(record, endpoint, time) ==
    LET limit == Limit(endpoint)
        blocked == record.blocked_until # None /\ time < record.blocked_until
        after == AfterExpiry(record, time)
        attempts_used ==
            IF time - after.first_attempt > TimeWindow
            THEN 0 ELSE after.attempt_count
    IN  [is_blocked |-> blocked,
         attempts_used |-> attempts_used,
         attempts_remaining |-> Max(0, limit - attempts_used),
         total_attempts_allowed |-> limit,
         blocked_until |-> after.blocked_until,
         time_remaining |->
             IF blocked THEN record.blocked_until - time ELSE None,
         time_remaining_minutes |->
             IF blocked THEN RemainingMinutes(record.blocked_until - time)
             ELSE None]

\* a status check that resets the expired blocks of the whole table
StatusRowsAll(tbl, t, i, time) ==
    [u \in DOMAIN tbl |->
        [j \in 1..Len(tbl[u]) |-> AfterExpiry(tbl[u][j], time)]]

\* a status check that stamps the row it read
StatusRowsTouch(tbl, t, i, time) ==
    IF i = 0 THEN tbl
    ELSE [tbl EXCEPT ![t][i] =
            [AfterExpiry(tbl[t][i], time) EXCEPT !.last_attempt = time]]

\* the table as get_status leaves it, and the status it returns, given the
\* row i that the lookup returned
StatusRows(tbl, t, i, time) ==
    IF i = 0 THEN tbl
    ELSE [tbl EXCEPT ![t][i] = AfterExpiry(tbl[t][i], time)]

StatusResult(tbl, t, i, time) ==
    IF i = 0 THEN CleanStatus(EndpointOf(t))
    ELSE StatusOf(tbl[t][i], EndpointOf(t), time)

(***************************************************************************)
(* RateLimit.is_blocked                                                    *)
(***************************************************************************)
\* an expiry in is_blocked that keeps the count
IsBlockedRowsKeepCount(tbl, t, i, time) ==
    IF i = 0 THEN tbl
    ELSE IF tbl[t][i].blocked_until = None THEN tbl
    ELSE IF time > tbl[t][i].blocked_until
         THEN [tbl EXCEPT ![t][i] = [tbl[t][i] EXCEPT !.blocked_until = None]]
         ELSE tbl

IsBlockedRows(tbl, t, i, time) ==
    IF i = 0 THEN tbl
    ELSE IF tbl[t][i].blocked_until = None THEN tbl
    ELSE IF time > tbl[t][i].blocked_until
         THEN [tbl EXCEPT ![t][i] = [tbl[t][i] EXCEPT !.blocked_until = None,
                                                      !.attempt_count = 0]]
         ELSE tbl

IsBlockedResult(tbl, t, i, time) ==
    IF i = 0 THEN FALSE
    ELSE IF tbl[t][i].blocked_until = None THEN FALSE
    ELSE ~(time > tbl[t][i].blocked_until)

(***************************************************************************)
(* RateLimit.record_attempt                                                *)
(***************************************************************************)
\* a first failure that is not counted
NewRecordZero(time) ==
    [attempt_count |-> 0, first_attempt |-> time, last_attempt |-> time,
     blocked_until |-> None]

NewRecord(time) ==
    [attempt_count |-> 1, first_attempt |-> time, last_attempt |-> time,
     blocked_until |-> None]

\* a failure counted without moving last_attempt
CountedStaleLast(record, time) ==
    IF time - record.first_attempt > TimeWindow
    THEN [attempt_count |-> 1, first_attempt |-> time, last_attempt |-> time,
          blocked_until |-> None]
    ELSE [record EXCEPT !.attempt_count = record.attempt_count + 1]

\* a window that never restarts
CountedNoReset(record, time) ==
    [record EXCEPT !.attempt_count = record.attempt_count + 1,
                   !.last_attempt = time]

\* a window that slides: measured from the latest failure
CountedSliding(record, time) ==
    IF time - record.last_attempt > TimeWindow
    THEN [attempt_count |-> 1, first_attempt |-> time, last_attempt |-> time,
          blocked_until |-> None]
    ELSE [record EXCEPT !.attempt_count = record.attempt_count + 1,
                        !.last_attempt = time]

\* a window restart that keeps the old block
CountedKeepBlock(record, time) ==
    IF time - record.first_attempt > TimeWindow
    THEN [attempt_count |-> 1, first_attempt |-> time, last_attempt |-> time,
          blocked_until |-> record.blocked_until]
    ELSE [record EXCEPT !.attempt_count = record.attempt_count + 1,
                        !.last_attempt = time]

\* the row found, after the failure is counted (window check)
Counted(record, time) ==
    IF time - record.first_attempt > TimeWindow
    THEN [attempt_count |-> 1, first_attempt |-> time, last_attempt |-> time,
          blocked_until |-> None]
    ELSE [record EXCEPT !.attempt_count = record.attempt_count + 1,
                        !.last_attempt = time]

\* a block that starts one failure late
BlockedStrict(record, endpoint, time) ==
    IF record.attempt_count > Limit(endpoint)
    THEN [record EXCEPT !.blocked_until = time + BlockDuration(endpoint)]
    ELSE record

\* "Check if should be blocked"
Blocked(record, endpoint, time) ==
    IF record.attempt_count >= Limit(endpoint)
    THEN [record EXCEPT !.blocked_until = time + BlockDuration(endpoint)]
    ELSE record

\* a success that leaves an empty row where there was none
AttemptRowsSuccessRow(tbl, t, i, success, time) ==
    IF success
    THEN IF i = 0
         THEN [tbl EXCEPT ![t] = Append(tbl[t], NewRecordZero(time))]
         ELSE [tbl EXCEPT ![t] = RemoveAt(tbl[t], i)]
    ELSE IF i = 0
         THEN [tbl EXCEPT ![t] =
                 Append(tbl[t], Blocked(NewRecord(time), EndpointOf(t), time))]
         ELSE [tbl EXCEPT ![t][i] =
                 Blocked(Counted(tbl[t][i], time), EndpointOf(t), time)]

\* a success that resets the row instead of deleting it
AttemptRowsKeep(tbl, t, i, success, time) ==
    IF success
    THEN IF i = 0 THEN tbl
         ELSE [tbl EXCEPT ![t][i] = [tbl[t][i] EXCEPT !.attempt_count = 0,
                                                      !.blocked_until = None]]
    ELSE IF i = 0
         THEN [tbl EXCEPT ![t] =
                 Append(tbl[t], Blocked(NewRecord(time), EndpointOf(t), time))]
         ELSE [tbl EXCEPT ![t][i] =
                 Blocked(Counted(tbl[t][i], time), EndpointOf(t), time)]

\* the table and the return value of record_attempt, from the table tbl as
\* the optional sweep left it and the row i that the lookup returned
AttemptRows(tbl, t, i, success, time) ==
    IF success
    THEN IF i = 0 THEN tbl ELSE [tbl EXCEPT ![t] = RemoveAt(tbl[t], i)]
    ELSE IF i = 0
         THEN [tbl EXCEPT ![t] =
                 Append(tbl[t], Blocked(NewRecord(time), EndpointOf(t), time))]
         ELSE [tbl EXCEPT ![t][i] =
                 Blocked(Counted(tbl[t][i], time), EndpointOf(t), time)]

\* a return value read from the row before it is updated
AttemptResultFound(tbl, t, i, success, time) ==
    IF success \/ i = 0 THEN FALSE
    ELSE tbl[t][i].blocked_until # None

AttemptResult(tbl, t, i, success, time) ==
    IF success THEN FALSE
    ELSE LET j == IF i = 0 THEN Len(tbl[t]) + 1 ELSE i
         IN  AttemptRows(tbl, t, i, success, time)[t][j].blocked_until # None

\* "if random.randint(1, 100) == 1: cls.cleanup_old_records()"
MaybeSwept(tbl, sweep, time) ==
    IF sweep THEN Swept(tbl, time, DefaultHoursOld) ELSE tbl

\* the bounds of the model on a call of record_attempt: rows are created for
\* the triples of the scope only, and attempt_count stays within MaxAttempts
WithinBounds(tbl, t, i, success) ==
    success \/ IF i = 0 THEN t \in DOMAIN tbl
               ELSE tbl[t][i].attempt_count < MaxAttempts

(***************************************************************************)
(* History of a triple, for the statement of the properties: n failures    *)
(* recorded in a row since the triple had no row, the first at time first  *)
(* and the latest at time last (n = -1 once anything else changed the row  *)
(* or a failure came later than the window), and held, the blocked_until   *)
(* that the latest blocking call set.  A triple whose row is gone starts   *)
(* over.                                                                   *)
(***************************************************************************)
NoStreak == [n |-> 0, first |-> 0, last |-> 0, held |-> None]

Broken(h) == [n |-> -1, first |-> 0, last |-> 0, held |-> h.held]

Settle(tbl, s) ==
    [t \in DOMAIN tbl |-> IF tbl[t] = <<>> THEN NoStreak ELSE s[t]]

\* after a call that counts no attempt: tbl before, tbl2 after
Touched(tbl, tbl2, s, t) ==
    IF t \in DOMAIN tbl /\ tbl2 # tbl
    THEN Settle(tbl2, [s EXCEPT ![t] = Broken(s[t])])
    ELSE s

\* after record_attempt, from the table tbl as the optional sweep left it
AttemptStreak(tbl, s, t, i, success, time) ==
    LET s0 == Settle(tbl, s)
        tbl2 == AttemptRows(tbl, t, i, success, time)
        j == IF i = 0 THEN Len(tbl[t]) + 1 ELSE i
        counted ==
            IF i = 0 THEN [s0[t] EXCEPT !.n = 1, !.first = time, !.last = time]
            ELSE IF s0[t].n >= 1 /\ time - s0[t].first <= TimeWindow
                 THEN [s0[t] EXCEPT !.n = s0[t].n + 1, !.last = time]
                 ELSE Broken(s0[t])
        mine == IF success THEN Broken(s0[t])
                ELSE IF tbl2[t][j].blocked_until # None
                     THEN [counted EXCEPT !.held = tbl2[t][j].blocked_until]
                     ELSE counted
    IN  IF t \in DOMAIN tbl
        THEN Settle(tbl2, [s0 EXCEPT ![t] = mine])
        ELSE s0

(***************************************************************************)
(* The calls of the RateLimit class.  Besides the value returned, ret      *)
(* keeps the row the lookup found and the row the call left (NoRow: none). *)
(***************************************************************************)
NoRow == [attempt_count |-> None, first_attempt |-> None,
          last_attempt |-> None, blocked_until |-> None]

RowAt(tbl, t, i) == IF i = 0 THEN NoRow ELSE tbl[t][i]

\* the row of a failed attempt after the call
AttemptLeft(tbl, t, i, success, time) ==
    IF success THEN NoRow
    ELSE LET j == IF i = 0 THEN Len(tbl[t]) + 1 ELSE i
         IN  AttemptRows(tbl, t, i, success, time)[t][j]

GetStatus(t) ==
    \E i \in First(rows, t) :
        /\ rows' = StatusRows(rows, t, i, now)
        /\ ret' = [op |-> "get_status", t |-> t,
                   status |-> StatusResult(rows, t, i, now),
                   found |-> RowAt(rows, t, i), left |-> RowAt(rows', t, i)]
        /\ streak' = Touched(rows, rows', streak, t)
        /\ UNCHANGED now

IsBlocked(t) ==
    \E i \in First(rows, t) :
        /\ rows' = IsBlockedRows(rows, t, i, now)
        /\ ret' = [op |-> "is_blocked", t |-> t,
                   result |-> IsBlockedResult(rows, t, i, now),
                   found |-> RowAt(rows, t, i), left |-> RowAt(rows', t, i)]
        /\ streak' = Touched(rows, rows', streak, t)
        /\ UNCHANGED now

RecordAttempt(t, success) ==
    \E sweep \in BOOLEAN :
        LET tbl == MaybeSwept(rows, sweep, now)
        IN  \E i \in First(tbl, t) :
                /\ WithinBounds(tbl, t, i, success)
                /\ rows' = AttemptRows(tbl, t, i, success, now)
                /\ ret' = [op |-> "record_attempt", t |-> t,
                           success |-> success,
                           result |-> AttemptResult(tbl, t, i, success, now),
                           found |-> RowAt(tbl, t, i),
                           left |-> AttemptLeft(tbl, t, i, success, now)]
                /\ streak' = AttemptStreak(tbl, streak, t, i, success, now)
                /\ UNCHANGED now

HoursOld == {1, DefaultHoursOld}

CleanupOldRecords(hours_old) ==
    /\ rows' = Swept(rows, now, hours_old)
    /\ ret' = [op |-> "cleanup", hours_old |-> hours_old,
               result |-> RecordCount(rows) - RecordCount(rows')]
    /\ streak' = Settle(rows', streak)
    /\ UNCHANGED now

(***************************************************************************)
(* utils/rate_limiter.py                                                   *)
(***************************************************************************)
\* get_informative_message: the text chosen and the number it embeds
Message(status, identifier_type) ==
    IF status.is_blocked
    THEN [text |-> IF identifier_type = "username"
                   THEN "account_locked" ELSE "location_locked",
          n |-> status.time_remaining_minutes]
    ELSE IF status.attempts_remaining <= 2
         THEN [text |-> "attempts_remaining", n |-> status.attempts_remaining]
         ELSE [text |-> "invalid_credentials", n |-> None]

GenericMessage == [text |-> "invalid_credentials", n |-> None]
NoMessage == [text |-> "none", n |-> None]
NoStatus == [is_blocked |-> FALSE, attempts_used |-> None,
             attempts_remaining |-> None, total_attempts_allowed |-> None,
             blocked_until |-> None, time_remaining |-> None,
             time_remaining_minutes |-> None]

\* record_attempt of utils/rate_limiter.py: RateLimit.record_attempt, then
\* RateLimit.get_status.  Every way the call can go from the table tbl with
\* the history s: the table and history it leaves, and the pair it returns.
Recorded(tbl, s, t, success, time) ==
    UNION { LET swept == MaybeSwept(tbl, sweep, time)
            IN  UNION { LET tbl2 == AttemptRows(swept, t, i, success, time)
                            s2 == AttemptStreak(swept, s, t, i, success, time)
                        IN  { [rows |-> StatusRows(tbl2, t, j, time),
                               streak |-> Touched(tbl2,
                                   StatusRows(tbl2, t, j, time), s2, t),
                               is_blocked |->
                                   AttemptResult(swept, t, i, success, time),
                               status |-> StatusResult(tbl2, t, j, time)]
                              : j \in First(tbl2, t) }
                        : i \in { k \in First(swept, t) :
                                    WithinBounds(swept, t, k, success) } }
            : sweep \in BOOLEAN }

\* what record_login_attempt returns, from the outcomes for the two keys
LoginAttemptReturn(ip, user, success) ==
    IF user.is_blocked
    THEN [blocked |-> TRUE, status |-> user.status,
          message |-> Message(user.status, "username")]
    ELSE IF ip.is_blocked
    THEN [blocked |-> TRUE, status |-> ip.status,
          message |-> Message(ip.status, "ip")]
    ELSE IF ~success /\ user.status.attempts_remaining <= 2
    THEN [blocked |-> FALSE, status |-> user.status,
          message |-> Message(user.status, "username")]
    ELSE [blocked |-> FALSE, status |-> user.status,
          message |-> GenericMessage]

(***************************************************************************)
(* routes/auth.py: the login route behind its rate_limit_check decorator.  *)
(* The table of users holds one user; the one-time codes and the session   *)
(* that a correct password sets up are no part of the limiter's state.     *)
(***************************************************************************)
Users == {NameA}
Passwords == {"", "right", "wrong"}
RawNames == {<<>>, NameA, NameSpA}
ClientIps == {IpAddr}

\* str.strip()
RECURSIVE LStrip(_)
LStrip(str) ==
    IF str # <<>> /\ Head(str) = " " THEN LStrip(Tail(str)) ELSE str

RECURSIVE RStrip(_)
RStrip(str) ==
    IF str # <<>> /\ str[Len(str)] = " "
    THEN RStrip(SubSeq(str, 1, Len(str) - 1)) ELSE str

Strip(str) == RStrip(LStrip(str))

\* a or b on two strings
Or(a, b) == IF a # <<>> THEN a ELSE b

\* the address looked up as a username
IpKeyAsName(client_ip) == <<client_ip, "username", "login">>

IpKey(client_ip) == <<client_ip, "ip", "login">>

\* the username looked up as an address
NameKeyAsIp(username) == <<username, "ip", "login">>

NameKey(username) == <<username, "username", "login">>

\* the identifier the decorator checks, and the one the route records
CheckedName(form) == Or(form.username, form.email)
RecordedName(form) == Strip(form.username)

Response(code, reason, status, message) ==
    [op |-> "login", code |-> code, reason |-> reason, status |-> status,
     message |-> message]

\* the body of login() for a POST, from the table the decorator left
LoginBody(tbl, s, client_ip, form, captcha_ok, otp_sent) ==
    LET username == RecordedName(form)
        good == username \in Users /\ form.password = "right"
    IN  IF ~captcha_ok
        THEN /\ rows' = tbl
             /\ streak' = s
             /\ ret' = Response(200, "captcha", NoStatus, NoMessage)
        ELSE IF username = <<>> \/ form.password = ""
        THEN /\ rows' = tbl
             /\ streak' = s
             /\ ret' = Response(200, "missing_input", NoStatus, NoMessage)
        ELSE \E ip \in Recorded(tbl, s, IpKey(client_ip), good, now) :
             \E user \in Recorded(ip.rows, ip.streak, NameKey(username),
                                  good, now) :
                LET r == LoginAttemptReturn(ip, user, good)
                IN  /\ rows' = user.rows
                    /\ streak' = user.streak
                    /\ ret' =
                         IF good
                         THEN IF otp_sent
                              THEN Response(302, "password_ok", NoStatus,
                                            NoMessage)
                              ELSE Response(200, "otp_not_sent", NoStatus,
                                            NoMessage)
                         ELSE IF r.blocked
                              THEN Response(429, "now_blocked", r.status,
                                            r.message)
                              ELSE Response(200, "wrong_credentials",
                                            NoStatus, r.message)

\* a request to /login: the decorator, then the route
Login(method, client_ip, form, captcha_ok, otp_sent) ==
    /\ UNCHANGED now
    /\ \E i \in First(rows, IpKey(client_ip)) :
        LET ip_status == StatusResult(rows, IpKey(client_ip), i, now)
            tbl1 == StatusRows(rows, IpKey(client_ip), i, now)
            s1 == Touched(rows, tbl1, streak, IpKey(client_ip))
            username == CheckedName(form)
        IN  IF ip_status.is_blocked
            THEN /\ rows' = tbl1
                 /\ streak' = s1
                 /\ ret' = Response(429, "ip_blocked", ip_status,
                                    Message(ip_status, "ip"))
            ELSE IF method = "POST" /\ username # <<>>
            THEN \E j \in First(tbl1, NameKey(username)) :
                    LET user_status ==
                            StatusResult(tbl1, NameKey(username), j, now)
                        tbl2 == StatusRows(tbl1, NameKey(username), j, now)
                        s2 == Touched(tbl1, tbl2, s1, NameKey(username))
                    IN  IF user_status.is_blocked
                        THEN /\ rows' = tbl2
                             /\ streak' = s2
                             /\ ret' = Response(429, "username_blocked",
                                          user_status,
                                          Message(user_status, "username"))
                        ELSE LoginBody(tbl2, s2, client_ip, form, captcha_ok,
                                       otp_sent)
            ELSE IF method = "POST"
            THEN LoginBody(tbl1, s1, client_ip, form, captcha_ok, otp_sent)
            ELSE /\ rows' = tbl1
                 /\ streak' = s1
                 /\ ret' = Response(200, "form", NoStatus, NoMessage)

\* the forms submitted: a username and a password, or no username and
\* possibly an email field, or no password
Forms ==
    { f \in [username : RawNames, email : {<<>>, NameA}, password : Passwords] :
        \/ f.username # <<>> /\ f.email = <<>> /\ f.password # ""
        \/ f.username = <<>> /\ f.password = "wrong"
        \/ f.username = NameA /\ f.email = <<>> /\ f.password = "" }

(***************************************************************************)
(* The clock.  A reading of ret is the return value of a call made at the  *)
(* present reading of the clock.                                           *)
(***************************************************************************)
RECURSIVE LongestBlock(_)
LongestBlock(S) ==
    IF S = {} THEN 0
    ELSE LET t == CHOOSE x \in S : TRUE
         IN  Max(BlockDuration(EndpointOf(t)), LongestBlock(S \ {t}))

\* a block whose time is reached is not held any more
Lapsed(s, time) ==
    [t \in DOMAIN s |->
        IF s[t].held # None /\ time >= s[t].held
        THEN [s[t] EXCEPT !.held = None]
        ELSE s[t]]

Tick(d) ==
    /\ (now % SecondsPerDay) + d <= LongestBlock(DOMAIN rows) + MaxPast * 900
    /\ now' = now + d
    /\ ret' = [op |-> "none"]
    /\ streak' = Lapsed(streak, now')
    /\ UNCHANGED rows

NextDay ==
    /\ now + SecondsPerDay < (MaxDays + 1) * SecondsPerDay
    /\ now' = now + SecondsPerDay
    /\ ret' = [op |-> "none"]
    /\ streak' = Lapsed(streak, now')
    /\ UNCHANGED rows

\* the parts of the state that the calls above leave alone
NoneElse ==
    /\ pending = <<>>
    /\ otps = <<>>
    /\ session = <<>>
    /\ denied = <<>>
    /\ attempts = <<>>
    /\ results = <<>>
Idle == UNCHANGED <<pending, otps, session, denied, attempts, results>>

\* the tables of the quizzes, which the limiter, the codes and the auth
\* routes leave alone
NoQuiz == attempts = <<>> /\ results = <<>>
QuizIdle == UNCHANGED <<attempts, results>>

Init ==
    /\ now = 0
    /\ \E scope \in Scopes :
           /\ rows = [t \in scope |-> <<>>]
           /\ streak = [t \in scope |-> NoStreak]
    /\ ret = [op |-> "none"]
    /\ NoneElse

Next ==
    \/ \E t \in DOMAIN rows : GetStatus(t) /\ Idle
    \/ \E t \in DOMAIN rows : IsBlocked(t) /\ Idle
    \/ \E t \in DOMAIN rows, success \in BOOLEAN : RecordAttempt(t, success) /\ Idle
    \/ \E hours_old \in HoursOld : CleanupOldRecords(hours_old) /\ Idle
    \/ \E d \in Steps : Tick(d) /\ Idle
    \/ NextDay /\ Idle

Spec == Init /\ [][Next]_vars

(***************************************************************************)
(* The login route on top of the calls above, for the two keys of a login, *)
(* within one day.                                                         *)
(***************************************************************************)
EmptyForm == [username |-> <<>>, email |-> <<>>, password |-> ""]

LoginGet(client_ip) == Login("GET", client_ip, EmptyForm, TRUE, TRUE)

LoginPost(client_ip, form, captcha_ok, otp_sent) ==
    /\ Login("POST", client_ip, form, captcha_ok, otp_sent)

InitLogin ==
    /\ now = 0
    /\ rows = [t \in LoginScope |-> <<>>]
    /\ streak = [t \in LoginScope |-> NoStreak]
    /\ ret = [op |-> "none"]
    /\ NoneElse

NextLogin ==
    \/ \E t \in DOMAIN rows : GetStatus(t) /\ Idle
    \/ \E t \in DOMAIN rows, success \in BOOLEAN : RecordAttempt(t, success) /\ Idle
    \/ \E d \in LoginSteps : Tick(d) /\ Idle
    \/ \E client_ip \in ClientIps : LoginGet(client_ip) /\ Idle
    \/ \E client_ip \in ClientIps, form \in Forms, captcha_ok \in BOOLEAN,
          otp_sent \in BOOLEAN :
            LoginPost(client_ip, form, captcha_ok, otp_sent) /\ Idle

SpecLogin == InitLogin /\ [][NextLogin]_vars

(***************************************************************************)
(* The calls of the RateLimit class on two triples side by side, within    *)
(* one day: the same identifier under the two identifier types, or under   *)
(* two endpoints.                                                          *)
(***************************************************************************)
TypePair ==
    {<<NameA, "username", "verify_2fa">>, <<NameA, "ip", "verify_2fa">>}
EndpointPair ==
    {<<NameA, "username", "verify_2fa">>, <<NameA, "username", "login">>}
PairScopes == {TypePair, EndpointPair}

InitPairs ==
    /\ now = 0
    /\ \E scope \in PairScopes :
           /\ rows = [t \in scope |-> <<>>]
           /\ streak = [t \in scope |-> NoStreak]
    /\ ret = [op |-> "none"]
    /\ NoneElse

NextPairs ==
    \/ \E t \in DOMAIN rows : GetStatus(t) /\ Idle
    \/ \E t \in DOMAIN rows, success \in BOOLEAN : RecordAttempt(t, success) /\ Idle
    \/ \E d \in LoginSteps : Tick(d) /\ Idle

SpecPairs == InitPairs /\ [][NextPairs]_vars

(***************************************************************************)
(* The sweep over a table with rows of two triples, over several days.     *)
(***************************************************************************)
InitSweep ==
    /\ now = 0
    /\ rows = [t \in TypePair |-> <<>>]
    /\ streak = [t \in TypePair |-> NoStreak]
    /\ ret = [op |-> "none"]
    /\ NoneElse

NextSweep ==
    \/ \E t \in DOMAIN rows, success \in BOOLEAN : RecordAttempt(t, success) /\ Idle
    \/ \E hours_old \in HoursOld : CleanupOldRecords(hours_old) /\ Idle
    \/ \E d \in LoginSteps : Tick(d) /\ Idle
    \/ NextDay /\ Idle

SpecSweep == InitSweep /\ [][NextSweep]_vars

(***************************************************************************)
(* Two requests in record_attempt at the same time, each in its own        *)
(* database session, failing on the one triple within one day.  A call     *)
(* looks the row up (lines 127-137) and later counts on the object it      *)
(* loaded and commits (147-181); another session may commit in between.    *)
(* The flush writes the columns whose value differs from the loaded one,   *)
(* for the row with the loaded primary key; a call that loaded no row      *)
(* inserts one.                                                            *)
(***************************************************************************)
Workers == {1, 2}
RaceKey == <<NameA, "username", "login">>

IdleCall == [pc |-> "idle"]

Columns == {"attempt_count", "first_attempt", "last_attempt", "blocked_until"}

\* UPDATE ... SET <changed columns> WHERE id = <loaded id>
Merged(stored, loaded, written) ==
    [c \in Columns |-> IF written[c] # loaded[c] THEN written[c] ELSE stored[c]]

\* a count made in the database on the stored row (SET attempt_count =
\* attempt_count + 1 under a row lock)
FlushedAtomic(stored, loaded, endpoint, time) ==
    Blocked(Counted(stored, time), endpoint, time)

\* the stored row after the commit of a call that loaded the row as `loaded`
Flushed(stored, loaded, endpoint, time) ==
    Merged(stored, loaded, Blocked(Counted(loaded, time), endpoint, time))

\* the rows of the triple after the commit of a call that loaded no row
Inserted(rws, endpoint, time) ==
    Append(rws, Blocked(NewRecord(time), endpoint, time))

\* lines 127-137: the optional sweep, then the lookup.  The history of the
\* triple counts the failures committed, the first at time first; the model
\* follows MaxAttempts failures.
RaceRead(w, t) ==
    /\ pending[w].pc = "idle"
    /\ streak[t].n + Cardinality({v \in Workers : pending[v].pc = "read"})
         < MaxAttempts
    /\ \E sweep \in BOOLEAN :
         LET tbl == MaybeSwept(rows, sweep, now)
         IN  \E i \in First(tbl, t) :
                /\ WithinBounds(tbl, t, i, FALSE)
                /\ rows' = tbl
                /\ pending' = [pending EXCEPT ![w] =
                                 [pc |-> "read", t |-> t, i |-> i,
                                  found |-> RowAt(tbl, t, i)]]
    /\ UNCHANGED <<now, ret, streak, otps, session, denied>>

\* lines 147-181 of a failed call: count on the loaded object, commit
RaceCommit(w) ==
    /\ pending[w].pc = "read"
    /\ LET t == pending[w].t
           i == pending[w].i
           found == pending[w].found
           before == RowAt(rows, t, i)
           object == IF i = 0 THEN NewRecord(now) ELSE Counted(found, now)
       IN  /\ rows' = IF i = 0
                      THEN [rows EXCEPT ![t] =
                              Inserted(rows[t], EndpointOf(t), now)]
                      ELSE [rows EXCEPT ![t][i] =
                              Flushed(before, found, EndpointOf(t), now)]
           /\ ret' = [op |-> "record_attempt", t |-> t, success |-> FALSE,
                      result |->
                        Blocked(object, EndpointOf(t), now).blocked_until
                            # None,
                      found |-> found, before |-> before,
                      others |-> Len(rows[t]),
                      left |-> IF i = 0 THEN rows'[t][Len(rows'[t])]
                               ELSE rows'[t][i]]
           /\ streak' = [streak EXCEPT ![t] =
                           IF streak[t].n = 0
                           THEN [n |-> 1, first |-> now, last |-> now,
                                 held |-> None]
                           ELSE [streak[t] EXCEPT !.n = streak[t].n + 1,
                                                  !.last = now]]
    /\ pending' = [pending EXCEPT ![w] = IdleCall]
    /\ UNCHANGED <<now, otps, session, denied>>

RaceTick(d) == Tick(d) /\ UNCHANGED <<pending, otps, session, denied>>

InitRace ==
    /\ now = 0
    /\ rows = [t \in {RaceKey} |-> <<>>]
    /\ streak = [t \in {RaceKey} |-> NoStreak]
    /\ ret = [op |-> "none"]
    /\ pending = [w \in Workers |-> IdleCall]
    /\ otps = <<>>
    /\ session = <<>>
    /\ denied = <<>>
    /\ NoQuiz

NextRace ==
    \/ \E w \in Workers, t \in DOMAIN rows : RaceRead(w, t) /\ QuizIdle
    \/ \E w \in Workers : RaceCommit(w) /\ QuizIdle
    \/ \E d \in LoginSteps : RaceTick(d) /\ QuizIdle

SpecRace == InitRace /\ [][NextRace]_vars

(***************************************************************************)
(* models/otp.py and the one-time codes of utils/email.py.  A row of       *)
(* otp_codes is [email, otp_code, purpose, created_at, expires_at, used].  *)
(***************************************************************************)
UserEmail == "a@x"
OtherEmail == "b@x"
Purposes == {"login", "password_reset"}
Codes == {"1", "2"}

\* OTPCode.__init__ and the column defaults
NewOtp(email, otp_code, purpose, time) ==
    [email |-> email, otp_code |-> otp_code, purpose |-> purpose,
     created_at |-> time, expires_at |-> time + OtpExpirySeconds,
     used |-> FALSE]

\* OTPCode.is_expired
IsExpired(otp, time) == time > otp.expires_at

\* OTPCode.is_valid
IsValid(otp, entered_otp, time) ==
    ~otp.used /\ ~IsExpired(otp, time) /\ otp.otp_code = entered_otp

\* OTPCode.get_valid_otp: the indexes the query may return, {0} for None
GetValidOtp(tbl, email, purpose, time) ==
    LET match == { i \in DOMAIN tbl :
                     /\ tbl[i].email = email
                     /\ tbl[i].purpose = purpose
                     /\ ~tbl[i].used
                     /\ tbl[i].expires_at > time }
        latest == { i \in match :
                      \A j \in match : tbl[j].created_at <= tbl[i].created_at }
    IN  IF match = {} THEN {0} ELSE latest

\* OTPCode.cleanup_expired
ExpiredRemoved(tbl, time) ==
    LET Keep(otp) == ~(otp.expires_at < time)
    IN  SelectSeq(tbl, Keep)

\* a send that keeps the earlier codes
OtpSentKeepOld(tbl, email, purpose, otp_code, time) ==
    Append(tbl, NewOtp(email, otp_code, purpose, time))

\* send_otp_email, lines 92-100: the table after the new code is stored
OtpSent(tbl, email, purpose, otp_code, time) ==
    LET Keep(otp) ==
            ~(otp.email = email /\ otp.purpose = purpose /\ ~otp.used)
    IN  Append(SelectSeq(tbl, Keep), NewOtp(email, otp_code, purpose, time))

\* verify_otp: the outcomes, each with the table it leaves
OtpVerified(tbl, email, entered_otp, purpose, time) ==
    { IF i = 0
      THEN [valid |-> FALSE, message |-> "invalid_or_expired", tbl |-> tbl]
      ELSE IF IsValid(tbl[i], entered_otp, time)
      THEN [valid |-> TRUE, message |-> "verified",
            tbl |-> [tbl EXCEPT ![i].used = TRUE]]
      ELSE [valid |-> FALSE, message |-> "invalid", tbl |-> tbl]
      : i \in GetValidOtp(tbl, email, purpose, time) }

\* the bound of the model on the table of codes
OtpRoom(tbl) == Len(tbl) < MaxOtps

SendOtpEmail(email, purpose, otp_code, configured) ==
    /\ OtpRoom(otps)
    /\ otps' = IF configured
               THEN OtpSent(otps, email, purpose, otp_code, now)
               ELSE otps
    /\ ret' = [op |-> "send_otp_email", email |-> email, purpose |-> purpose,
               success |-> configured,
               otp_code |-> IF configured THEN otp_code ELSE "none"]
    /\ UNCHANGED <<now, rows, streak, pending, session, denied>>

VerifyOtp(email, entered_otp, purpose) ==
    /\ \E out \in OtpVerified(otps, email, entered_otp, purpose, now) :
         /\ otps' = out.tbl
         /\ ret' = [op |-> "verify_otp", email |-> email,
                    purpose |-> purpose, entered_otp |-> entered_otp,
                    valid |-> out.valid, message |-> out.message]
    /\ UNCHANGED <<now, rows, streak, pending, session, denied>>

CleanupExpired ==
    /\ otps' = ExpiredRemoved(otps, now)
    /\ ret' = [op |-> "cleanup_expired", result |-> Len(otps) - Len(otps')]
    /\ UNCHANGED <<now, rows, streak, pending, session, denied>>

OtpSteps == {150, 300}

OtpTick(d) ==
    /\ now + d <= (MaxPast + 1) * OtpExpirySeconds
    /\ now' = now + d
    /\ ret' = [op |-> "none"]
    /\ UNCHANGED <<rows, streak, pending, otps, session, denied>>

InitOtp ==
    /\ now = 0
    /\ rows = <<>>
    /\ streak = <<>>
    /\ ret = [op |-> "none"]
    /\ pending = <<>>
    /\ otps = <<>>
    /\ session = <<>>
    /\ denied = <<>>
    /\ NoQuiz

NextOtp ==
    \/ \E email \in {UserEmail}, purpose \in Purposes, otp_code \in Codes,
          configured \in BOOLEAN :
            SendOtpEmail(email, purpose, otp_code, configured) /\ QuizIdle
    \/ \E email \in {UserEmail}, entered_otp \in Codes, purpose \in Purposes :
            VerifyOtp(email, entered_otp, purpose) /\ QuizIdle
    \/ CleanupExpired /\ QuizIdle
    \/ \E d \in OtpSteps : OtpTick(d) /\ QuizIdle

SpecOtp == InitOtp /\ [][NextOtp]_vars

(***************************************************************************)
(* routes/auth.py: the routes behind rate_limit_check other than login,    *)
(* with login itself, for one browser at one address and the one user.     *)
(* The session holds '2fa_user_id' (twofa), 'reset_email' and              *)
(* 'reset_verified'.  The user's password is whatever Passwords calls      *)
(* "right"; reset_password changes what that is.                           *)
(***************************************************************************)
GuardedEndpoints ==
    {"verify_2fa", "forgot_password", "verify_reset_otp", "reset_password",
     "resend_otp"}

AuthScope == LoginScope \cup {<<IpAddr, "ip", e>> : e \in GuardedEndpoints}

\* the codes generate_otp draws here; any code of Codes may be entered
SentCodes == {"1"}

NoSession == [twofa |-> FALSE, reset_email |-> "", reset_verified |-> FALSE]
NoneDenied == [endpoint |-> "none", n |-> 0]

\* a guard that looks at the address's login key whatever the route
GuardKeyLogin(client_ip, endpoint_name) == <<client_ip, "ip", "login">>

\* the triple rate_limit_check looks up for a route other than a login POST
GuardKey(client_ip, endpoint_name) == <<client_ip, "ip", endpoint_name>>

\* rate_limit_check for such a route: the status found, the table left
Guard(tbl, client_ip, endpoint_name, time) ==
    LET key == GuardKey(client_ip, endpoint_name)
    IN  { [status |-> StatusResult(tbl, key, i, time),
           rows |-> StatusRows(tbl, key, i, time)] : i \in First(tbl, key) }

\* the answer of a guarded route, and the history of the codes turned down
Answer(endpoint_name, code, reason) ==
    [op |-> endpoint_name, code |-> code, reason |-> reason]

TurnedDown(h, endpoint_name) ==
    IF h.endpoint = endpoint_name
    THEN [h EXCEPT !.n = IF h.n < MaxDenied THEN h.n + 1 ELSE h.n]
    ELSE [endpoint |-> endpoint_name, n |-> 1]

\* the decorator's 429
Rejected(g, endpoint_name) ==
    /\ rows' = g.rows
    /\ ret' = Answer(endpoint_name, 429, "ip_blocked")
    /\ UNCHANGED <<otps, session, denied>>

Verify2fa(client_ip, method, otp_code) ==
    /\ \E g \in Guard(rows, client_ip, "verify_2fa", now) :
         IF g.status.is_blocked THEN Rejected(g, "verify_2fa")
         ELSE /\ rows' = g.rows
              /\ IF ~session.twofa
                 THEN /\ ret' = Answer("verify_2fa", 302, "no_session")
                      /\ UNCHANGED <<otps, session, denied>>
                 ELSE IF method = "GET"
                 THEN /\ ret' = Answer("verify_2fa", 200, "form")
                      /\ UNCHANGED <<otps, session, denied>>
                 ELSE IF otp_code = ""
                 THEN /\ ret' = Answer("verify_2fa", 200, "missing_code")
                      /\ denied' = TurnedDown(denied, "verify_2fa")
                      /\ UNCHANGED <<otps, session>>
                 ELSE \E out \in OtpVerified(otps, UserEmail, otp_code,
                                             "login", now) :
                        /\ otps' = out.tbl
                        /\ IF out.valid
                           THEN /\ session' = [session EXCEPT !.twofa = FALSE]
                                /\ ret' = Answer("verify_2fa", 302,
                                                 "logged_in")
                                /\ denied' = NoneDenied
                           ELSE /\ ret' = Answer("verify_2fa", 200,
                                                 "invalid_otp")
                                /\ denied' = TurnedDown(denied, "verify_2fa")
                                /\ UNCHANGED session
    /\ UNCHANGED <<now, streak, pending>>

ForgotPassword(client_ip, method, enabled, email, configured) ==
    /\ \E g \in Guard(rows, client_ip, "forgot_password", now) :
         IF g.status.is_blocked THEN Rejected(g, "forgot_password")
         ELSE /\ rows' = g.rows
              /\ IF ~enabled
                 THEN /\ ret' = Answer("forgot_password", 200, "disabled")
                      /\ UNCHANGED <<otps, session, denied>>
                 ELSE IF method = "GET"
                 THEN /\ ret' = Answer("forgot_password", 200, "form")
                      /\ UNCHANGED <<otps, session, denied>>
                 ELSE IF email = ""
                 THEN /\ ret' = Answer("forgot_password", 200,
                                       "missing_email")
                      /\ UNCHANGED <<otps, session, denied>>
                 ELSE IF email # UserEmail
                 THEN /\ ret' = Answer("forgot_password", 200,
                                       "unknown_email")
                      /\ UNCHANGED <<otps, session, denied>>
                 ELSE IF configured
                 THEN /\ OtpRoom(otps)
                      /\ \E otp_code \in SentCodes :
                           otps' = OtpSent(otps, email, "password_reset",
                                           otp_code, now)
                      /\ session' = [session EXCEPT !.reset_email = email]
                      /\ ret' = Answer("forgot_password", 302, "code_sent")
                      /\ UNCHANGED denied
                 ELSE /\ ret' = Answer("forgot_password", 200, "send_failed")
                      /\ UNCHANGED <<otps, session, denied>>
    /\ UNCHANGED <<now, streak, pending>>

VerifyResetOtp(client_ip, method, otp_code) ==
    /\ \E g \in Guard(rows, client_ip, "verify_reset_otp", now) :
         IF g.status.is_blocked THEN Rejected(g, "verify_reset_otp")
         ELSE /\ rows' = g.rows
              /\ IF session.reset_email = ""
                 THEN /\ ret' = Answer("verify_reset_otp", 200, "no_session")
                      /\ UNCHANGED <<otps, session, denied>>
                 ELSE IF method = "GET"
                 THEN /\ ret' = Answer("verify_reset_otp", 200, "form")
                      /\ UNCHANGED <<otps, session, denied>>
                 ELSE IF otp_code = ""
                 THEN /\ ret' = Answer("verify_reset_otp", 200,
                                       "missing_code")
                      /\ denied' = TurnedDown(denied, "verify_reset_otp")
                      /\ UNCHANGED <<otps, session>>
                 ELSE \E out \in OtpVerified(otps, session.reset_email,
                                             otp_code, "password_reset",
                                             now) :
                        /\ otps' = out.tbl
                        /\ IF out.valid
                           THEN /\ session' =
                                     [session EXCEPT !.reset_verified = TRUE]
                                /\ ret' = Answer("verify_reset_otp", 302,
                                                 "verified")
                                /\ denied' = NoneDenied
                           ELSE /\ ret' = Answer("verify_reset_otp", 200,
                                                 "invalid_otp")
                                /\ denied' =
                                     TurnedDown(denied, "verify_reset_otp")
                                /\ UNCHANGED session
    /\ UNCHANGED <<now, streak, pending>>

\* the new password typed twice: "", "short", "mismatch" or "ok"
NewPasswords == {"", "short", "mismatch", "ok"}

ResetPassword(client_ip, method, password) ==
    /\ \E g \in Guard(rows, client_ip, "reset_password", now) :
         IF g.status.is_blocked THEN Rejected(g, "reset_password")
         ELSE /\ rows' = g.rows
              /\ IF session.reset_email = "" \/ ~session.reset_verified
                 THEN /\ ret' = Answer("reset_password", 200, "no_session")
                      /\ UNCHANGED <<otps, session, denied>>
                 ELSE IF method = "GET"
                 THEN /\ ret' = Answer("reset_password", 200, "form")
                      /\ UNCHANGED <<otps, session, denied>>
                 ELSE IF password # "ok"
                 THEN /\ ret' = Answer("reset_password", 200,
                                       IF password = "" THEN "missing_input"
                                       ELSE password)
                      /\ UNCHANGED <<otps, session, denied>>
                 ELSE /\ session' = [session EXCEPT !.reset_email = "",
                                                    !.reset_verified = FALSE]
                      /\ ret' = Answer("reset_password", 302,
                                       "password_updated")
                      /\ UNCHANGED <<otps, denied>>
    /\ UNCHANGED <<now, streak, pending>>

ResendOtp(client_ip, configured) ==
    /\ \E g \in Guard(rows, client_ip, "resend_otp", now) :
         IF g.status.is_blocked THEN Rejected(g, "resend_otp")
         ELSE /\ rows' = g.rows
              /\ IF session.twofa \/ (session.reset_email # ""
                                       /\ ~session.reset_verified)
                 THEN LET purpose == IF session.twofa THEN "login"
                                     ELSE "password_reset"
                          email == IF session.twofa THEN UserEmail
                                   ELSE session.reset_email
                      IN  IF configured
                          THEN /\ OtpRoom(otps)
                               /\ \E otp_code \in SentCodes :
                                    otps' = OtpSent(otps, email, purpose,
                                                    otp_code, now)
                               /\ ret' = Answer("resend_otp", 302, "resent")
                               /\ UNCHANGED <<session, denied>>
                          ELSE /\ ret' = Answer("resend_otp", 302,
                                                "resend_failed")
                               /\ UNCHANGED <<otps, session, denied>>
                 ELSE /\ ret' = Answer("resend_otp", 302, "no_session")
                      /\ UNCHANGED <<otps, session, denied>>
    /\ UNCHANGED <<now, streak, pending>>

\* login with what its correct password sets up: the code sent (auth.py
\* 105-113) and the session of the second factor
AuthForms ==
    { f \in Forms : f.username = NameA /\ f.password \in {"right", "wrong"} }

LoginSent(client_ip, form, otp_sent) ==
    /\ otp_sent => OtpRoom(otps)
    /\ Login("POST", client_ip, form, TRUE, otp_sent)
    /\ IF ret'.reason = "password_ok"
       THEN /\ \E otp_code \in SentCodes :
                 otps' = OtpSent(otps, UserEmail, "login", otp_code, now)
            /\ session' = [session EXCEPT !.twofa = TRUE]
       ELSE UNCHANGED <<otps, session>>
    /\ UNCHANGED <<pending, denied>>

AuthTick(d) ==
    /\ now + d <= MaxPast * TimeWindow
    /\ Tick(d)
    /\ UNCHANGED <<pending, otps, session, denied>>

Methods == {"GET", "POST"}

InitAuth ==
    /\ now = 0
    /\ rows = [t \in AuthScope |-> <<>>]
    /\ streak = [t \in AuthScope |-> NoStreak]
    /\ ret = [op |-> "none"]
    /\ pending = <<>>
    /\ otps = <<>>
    /\ session = NoSession
    /\ denied = NoneDenied
    /\ NoQuiz

NextAuth ==
    \/ \E client_ip \in ClientIps, form \in AuthForms, otp_sent \in BOOLEAN :
            LoginSent(client_ip, form, otp_sent) /\ QuizIdle
    \/ \E client_ip \in ClientIps, method \in Methods,
          otp_code \in Codes \cup {""} :
            Verify2fa(client_ip, method, otp_code) /\ QuizIdle
    \/ \E client_ip \in ClientIps, method \in Methods, enabled \in BOOLEAN,
          email \in {"", UserEmail, OtherEmail}, configured \in BOOLEAN :
            ForgotPassword(client_ip, method, enabled, email, configured)
            /\ QuizIdle
    \/ \E client_ip \in ClientIps, method \in Methods,
          otp_code \in Codes \cup {""} :
            VerifyResetOtp(client_ip, method, otp_code) /\ QuizIdle
    \/ \E client_ip \in ClientIps, method \in Methods,
          password \in NewPasswords :
            ResetPassword(client_ip, method, password) /\ QuizIdle
    \/ \E client_ip \in ClientIps, configured \in BOOLEAN :
            ResendOtp(client_ip, configured) /\ QuizIdle
    \/ \E d \in LoginSteps : AuthTick(d) /\ QuizIdle

SpecAuth == InitAuth /\ [][NextAuth]_vars

(***************************************************************************)
(* routes/quiz.py: taking a quiz.  A row of quiz_attempts is [user_id,     *)
(* quiz_id, started_at, completed_at, score, questions], its id the        *)
(* position in the table; a row of quiz_results is [attempt_id, user_id,   *)
(* question_id, selected_answers, is_correct].  The quizzes and questions  *)
(* are the admin's and stay as they are.                                   *)
(***************************************************************************)
\* the users logged in: user 1 takes quizzes, user 2 tries user 1's attempts
QuizUsers == {1, 2}
Starters == {1}
QuizIds == {1, 2, 3}
QuestionIds == {1, 2, 3}
Missing == 9

\* Quiz.number_of_questions
NumberOfQuestions(quiz_id) == IF quiz_id = 2 THEN 1 ELSE 2

\* the questions of the quiz's categories, ordered by id; quiz 3 has no
\* category
HasCategories(quiz_id) == quiz_id # 3
Available(quiz_id) ==
    CASE quiz_id = 1 -> <<1, 2, 3>>
      [] quiz_id = 2 -> <<3>>
      [] OTHER -> <<>>

\* Question.correct_answers
CorrectAnswers(question_id) ==
    CASE question_id = 1 -> {0}
      [] question_id = 2 -> {0, 1}
      [] OTHER -> {1}

\* request.form.getlist('answer', type=int), as a set
Selections == {{}, {0}, {0, 1}}

Range(seq) == {seq[i] : i \in DOMAIN seq}

\* attempt.results
ResultsOf(res, attempt_id) ==
    LET Mine(r) == r.attempt_id = attempt_id
    IN  SelectSeq(res, Mine)

RECURSIVE CorrectCount(_)
CorrectCount(res) ==
    IF res = <<>> THEN 0
    ELSE (IF Head(res).is_correct THEN 1 ELSE 0) + CorrectCount(Tail(res))

\* the uncompleted attempts of a user at a quiz
Ongoing(tbl, user_id, quiz_id) ==
    { a \in DOMAIN tbl : /\ tbl[a].user_id = user_id
                         /\ tbl[a].quiz_id = quiz_id
                         /\ tbl[a].completed_at = None }

\* the first question of the attempt without a result, 0 for none
RECURSIVE NextUnanswered(_, _)
NextUnanswered(questions, answered) ==
    IF questions = <<>> THEN 0
    ELSE IF Head(questions) \notin answered THEN Head(questions)
    ELSE NextUnanswered(Tail(questions), answered)

\* a score that counts every answer
CompletedAll(attempt, res, time) ==
    [attempt EXCEPT !.completed_at = time, !.score = Len(res)]

\* "attempt.completed_at = ...; attempt.score = sum(...)"
Completed(attempt, res, time) ==
    [attempt EXCEPT !.completed_at = time, !.score = CorrectCount(res)]

Reply(op, user, attempt_id, reason) ==
    [op |-> op, attempt_id |-> attempt_id, reason |-> reason]

OnlyQuiz == UNCHANGED <<now, rows, streak, pending, otps, session, denied>>

StartQuiz(user, quiz_id) ==
    /\ IF quiz_id \notin QuizIds
       THEN /\ ret' = Reply("start_quiz", user, 0, "404")
            /\ UNCHANGED <<attempts, results>>
       ELSE IF Ongoing(attempts, user, quiz_id) # {}
       THEN /\ \E a \in Ongoing(attempts, user, quiz_id) :
                 ret' = Reply("start_quiz", user, a, "resumed")
            /\ UNCHANGED <<attempts, results>>
       ELSE IF ~HasCategories(quiz_id)
       THEN /\ ret' = Reply("start_quiz", user, 0, "no_categories")
            /\ UNCHANGED <<attempts, results>>
       ELSE IF Len(Available(quiz_id)) < NumberOfQuestions(quiz_id)
       THEN /\ ret' = Reply("start_quiz", user, 0, "not_enough_questions")
            /\ UNCHANGED <<attempts, results>>
       ELSE /\ Len(attempts) < MaxQuizAttempts
            /\ attempts' =
                 Append(attempts,
                        [user_id |-> user, quiz_id |-> quiz_id,
                         started_at |-> now, completed_at |-> None,
                         score |-> 0,
                         questions |-> SubSeq(Available(quiz_id), 1,
                                              NumberOfQuestions(quiz_id))])
            /\ ret' = Reply("start_quiz", user, Len(attempts'), "started")
            /\ UNCHANGED results
    /\ OnlyQuiz

TakeQuiz(user, attempt_id) ==
    /\ IF attempt_id \notin DOMAIN attempts
       THEN /\ ret' = Reply("take_quiz", user, attempt_id, "404")
            /\ UNCHANGED attempts
       ELSE LET attempt == attempts[attempt_id]
                mine == ResultsOf(results, attempt_id)
                answered == {mine[i].question_id : i \in DOMAIN mine}
                next_question ==
                    NextUnanswered(attempt.questions, answered)
            IN  IF attempt.user_id # user
                THEN /\ ret' = Reply("take_quiz", user, attempt_id,
                                     "no_permission")
                     /\ UNCHANGED attempts
                ELSE IF attempt.completed_at # None
                THEN /\ ret' = Reply("take_quiz", user, attempt_id,
                                     "completed")
                     /\ UNCHANGED attempts
                ELSE IF next_question = 0
                THEN /\ attempts' = [attempts EXCEPT ![attempt_id] =
                                       Completed(attempt, mine, now)]
                     /\ ret' = Reply("take_quiz", user, attempt_id,
                                     "now_completed")
                ELSE /\ ret' = [Reply("take_quiz", user, attempt_id,
                                      "question")
                                EXCEPT !.reason = <<"question",
                                                    next_question>>]
                     /\ UNCHANGED attempts
    /\ UNCHANGED results
    /\ OnlyQuiz

SubmitAnswer(user, attempt_id, question_id, selected_answers) ==
    /\ IF attempt_id \notin DOMAIN attempts \/ question_id \notin QuestionIds
       THEN /\ ret' = Reply("submit_answer", user, attempt_id, "404")
            /\ UNCHANGED results
       ELSE LET attempt == attempts[attempt_id]
                existing_result ==
                    { i \in DOMAIN results :
                        /\ results[i].attempt_id = attempt_id
                        /\ results[i].question_id = question_id }
            IN  IF attempt.user_id # user
                THEN /\ ret' = Reply("submit_answer", user, attempt_id,
                                     "no_permission")
                     /\ UNCHANGED results
                ELSE IF attempt.completed_at # None
                THEN /\ ret' = Reply("submit_answer", user, attempt_id,
                                     "completed")
                     /\ UNCHANGED results
                ELSE IF existing_result # {}
                THEN /\ ret' = Reply("submit_answer", user, attempt_id,
                                     "already_answered")
                     /\ UNCHANGED results
                ELSE IF selected_answers = {}
                THEN /\ ret' = Reply("submit_answer", user, attempt_id,
                                     "nothing_selected")
                     /\ UNCHANGED results
                ELSE IF question_id \notin Range(attempt.questions)
                THEN /\ ret' = Reply("submit_answer", user, attempt_id,
                                     "invalid_question")
                     /\ UNCHANGED results
                ELSE /\ results' =
                          Append(results,
                                 [attempt_id |-> attempt_id,
                                  user_id |-> user,
                                  question_id |-> question_id,
                                  selected_answers |-> selected_answers,
                                  is_correct |->
                                    selected_answers
                                        = CorrectAnswers(question_id)])
                     /\ ret' = Reply("submit_answer", user, attempt_id,
                                     "saved")
    /\ UNCHANGED attempts
    /\ OnlyQuiz

NextQuestion(user, attempt_id) ==
    /\ IF attempt_id \notin DOMAIN attempts
       THEN /\ ret' = Reply("next_question", user, attempt_id, "404")
            /\ UNCHANGED attempts
       ELSE LET attempt == attempts[attempt_id]
                mine == ResultsOf(results, attempt_id)
            IN  IF attempt.user_id # user
                THEN /\ ret' = Reply("next_question", user, attempt_id,
                                     "no_permission")
                     /\ UNCHANGED attempts
                ELSE IF Len(mine) >= Len(attempt.questions)
                THEN /\ attempts' =
                          IF attempt.completed_at = None
                          THEN [attempts EXCEPT ![attempt_id] =
                                  Completed(attempt, mine, now)]
                          ELSE attempts
                     /\ ret' = Reply("next_question", user, attempt_id,
                                     "results")
                ELSE /\ ret' = Reply("next_question", user, attempt_id,
                                     "take")
                     /\ UNCHANGED attempts
    /\ UNCHANGED results
    /\ OnlyQuiz

InitQuiz ==
    /\ now = 0
    /\ rows = <<>>
    /\ streak = <<>>
    /\ ret = [op |-> "none"]
    /\ pending = <<>>
    /\ otps = <<>>
    /\ session = <<>>
    /\ denied = <<>>
    /\ attempts = <<>>
    /\ results = <<>>

NextQuiz ==
    \/ \E user \in Starters, quiz_id \in QuizIds \cup {Missing} :
            StartQuiz(user, quiz_id)
    \/ \E user \in QuizUsers, attempt_id \in 1..MaxQuizAttempts :
            TakeQuiz(user, attempt_id)
    \/ \E user \in QuizUsers, attempt_id \in 1..MaxQuizAttempts,
          question_id \in QuestionIds \cup {Missing},
          selected_answers \in Selections :
            SubmitAnswer(user, attempt_id, question_id, selected_answers)
    \/ \E user \in QuizUsers, attempt_id \in 1..MaxQuizAttempts :
            NextQuestion(user, attempt_id)

SpecQuiz == InitQuiz /\ [][NextQuiz]_vars

(***************************************************************************)
(* Properties.                                                             *)
(***************************************************************************)
StatusCall(t) == ret.op = "get_status" /\ ret.t = t
FailedCall == ret.op = "record_attempt" /\ ~ret.success

\* C1: for a triple that started with no row, after N failed record_attempt
\* calls, all within 15 minutes of the first and N at least the limit of the
\* endpoint, a get_status made at the time of the last of them reports
\* is_blocked = true and attempts_remaining = 0.
C1_BlockedAtLimit ==
    \A t \in DOMAIN rows :
        (/\ StatusCall(t)
         /\ streak[t].n >= Limit(EndpointOf(t))
         /\ streak[t].last = now)
        => ret.status.is_blocked /\ ret.status.attempts_remaining = 0

C1_Witness ==
    \E t \in DOMAIN rows :
        /\ StatusCall(t)
        /\ streak[t].n > Limit(EndpointOf(t))
        /\ streak[t].last = now
        /\ streak[t].first < now
        /\ ret.status.is_blocked

\* C2: record_attempt(success = true) returns false and leaves no row for the
\* triple, whatever row it found (a blocked one included), and the next
\* get_status, whenever it is made, reports 0 used, the limit remaining and
\* no block.
C2_SuccessClears ==
    (ret.op = "record_attempt" /\ ret.success)
    => /\ ret.result = FALSE
       /\ RowsOf(rows, ret.t) = <<>>
       /\ \A i \in First(rows, ret.t), d \in {0} \cup Steps :
            LET status == StatusResult(rows, ret.t, i, now + d)
            IN  /\ status.attempts_used = 0
                /\ status.attempts_remaining = Limit(EndpointOf(ret.t))
                /\ status.is_blocked = FALSE

C2_Witness ==
    /\ ret.op = "record_attempt" /\ ret.success
    /\ ret.found # NoRow
    /\ ret.found.blocked_until # None /\ now < ret.found.blocked_until
    /\ ret.found.attempt_count > Limit(EndpointOf(ret.t))
    /\ RowsOf(rows, ret.t) = <<>>

\* C3: for a triple that started with no row, after k failed record_attempt
\* calls with 1 <= k < limit, a get_status made while the window of the first
\* of them is open reports attempts_used = k, attempts_remaining = limit - k
\* and is_blocked = false.
C3_CountsBelowLimit ==
    \A t \in DOMAIN rows :
        (/\ StatusCall(t)
         /\ streak[t].n >= 1
         /\ streak[t].n < Limit(EndpointOf(t))
         /\ now - streak[t].first <= 15 * 60)
        => /\ ret.status.attempts_used = streak[t].n
           /\ ret.status.attempts_remaining =
                 Limit(EndpointOf(t)) - streak[t].n
           /\ ret.status.is_blocked = FALSE

C3_Witness ==
    \E t \in DOMAIN rows :
        /\ StatusCall(t)
        /\ EndpointOf(t) = "login"
        /\ streak[t].n = 4
        /\ streak[t].first < now
        /\ ret.status.attempts_remaining = 1
        /\ ~ret.status.is_blocked

\* the table of the specification: limit and block duration of an endpoint
TableLimit(endpoint) ==
    IF endpoint \in {"forgot_password", "reset_password", "verify_2fa"}
    THEN 3 ELSE 5

TableBlockSeconds(endpoint) ==
    IF endpoint \in {"forgot_password", "reset_password"} THEN 60 * 60
    ELSE IF endpoint = "verify_2fa" THEN 15 * 60
    ELSE 30 * 60

\* C4: a failed record_attempt that leaves attempt_count at the limit of the
\* endpoint or beyond sets blocked_until to the time of the call plus the
\* block duration of the endpoint (login 5 / 30 min, forgot_password and
\* reset_password 3 / 60 min, verify_2fa 3 / 15 min, register and any other
\* endpoint 5 / 30 min); one that leaves it below the limit leaves no block.
C4_BlockSetAtLimit ==
    FailedCall
    => IF ret.left.attempt_count >= TableLimit(EndpointOf(ret.t))
       THEN ret.left.blocked_until =
                now + TableBlockSeconds(EndpointOf(ret.t))
       ELSE ret.left.blocked_until = None

C4_Witness ==
    /\ FailedCall
    /\ EndpointOf(ret.t) = "forgot_password"
    /\ now > 0
    /\ ret.found.attempt_count = 2
    /\ ret.left.attempt_count = 3
    /\ ret.left.blocked_until = now + 3600

\* C5: a failed record_attempt that finds a row whose first_attempt lies more
\* than 15 minutes back sets attempt_count to 1, first_attempt and
\* last_attempt to the time of the call and blocked_until to null.
C5_FreshWindow ==
    (/\ FailedCall
     /\ ret.found # NoRow
     /\ now - ret.found.first_attempt > 15 * 60)
    => ret.left = [attempt_count |-> 1, first_attempt |-> now,
                   last_attempt |-> now, blocked_until |-> None]

C5_Witness ==
    /\ FailedCall
    /\ ret.found # NoRow
    /\ now - ret.found.first_attempt > 15 * 60
    /\ ret.found.attempt_count >= 2
    /\ ret.found.blocked_until = None
    /\ ret.left.attempt_count = 1

\* C6: a get_status that finds a row whose blocked_until is now or earlier
\* reports is_blocked = false and attempts_used = 0 and stores blocked_until
\* = null and attempt_count = 0; a second get_status at the same time returns
\* the same status and changes nothing.
C6_ExpiryIdempotent ==
    (/\ ret.op = "get_status"
     /\ ret.found # NoRow
     /\ ret.found.blocked_until # None
     /\ now >= ret.found.blocked_until)
    => /\ ret.status.is_blocked = FALSE
       /\ ret.status.attempts_used = 0
       /\ ret.status.blocked_until = None
       /\ rows[ret.t] # <<>>
       /\ \A i \in First(rows, ret.t) :
            /\ rows[ret.t][i].blocked_until = None
            /\ rows[ret.t][i].attempt_count = 0
            /\ StatusResult(rows, ret.t, i, now) = ret.status
            /\ StatusRows(rows, ret.t, i, now) = rows

C6_Witness ==
    /\ ret.op = "get_status"
    /\ ret.found # NoRow
    /\ ret.found.blocked_until = now
    /\ ret.found.attempt_count >= Limit(EndpointOf(ret.t))
    /\ now - ret.found.first_attempt <= 15 * 60
    /\ ret.left.attempt_count = 0

\* C7: from the call that sets blocked_until until that time is reached, and
\* unless a success is recorded in between, every get_status reports
\* is_blocked = true; a failed record_attempt made during the block neither
\* clears nor shortens it.
C7_BlockedUntilExpiry ==
    /\ \A t \in DOMAIN rows :
          (StatusCall(t) /\ streak[t].held # None /\ now < streak[t].held)
          => ret.status.is_blocked
    /\ (/\ FailedCall
        /\ ret.found # NoRow
        /\ ret.found.blocked_until # None
        /\ now < ret.found.blocked_until)
       => /\ ret.left.blocked_until # None
          /\ ret.left.blocked_until >= ret.found.blocked_until

CeilDiv(a, b) == (a + b - 1) \div b

\* C8: whenever get_status reports is_blocked = true, time_remaining_minutes
\* is the ceiling of (blocked_until - now) / 60, multiples of 60 included,
\* and at least 1; it is null when not blocked.
C8_RemainingMinutesCeil ==
    ret.op = "get_status"
    => IF ret.status.is_blocked
       THEN /\ ret.status.time_remaining_minutes =
                  CeilDiv(ret.found.blocked_until - now, 60)
            /\ ret.status.time_remaining_minutes >= 1
       ELSE ret.status.time_remaining_minutes = None

\* C9: after any sequence of get_status, is_blocked, record_attempt and
\* cleanup calls the table holds at most one row for a triple.
C9_OneRowPerTriple ==
    \A t \in DOMAIN rows : Len(rows[t]) <= 1

C9_Witness ==
    /\ FailedCall
    /\ ret.found # NoRow
    /\ ret.found.attempt_count >= 2
    /\ Len(rows[ret.t]) = 1

\* a row of the key holds a block that has not run out
KeyBlocked(tbl, t, time) ==
    \E i \in DOMAIN RowsOf(tbl, t) :
        tbl[t][i].blocked_until # None /\ time < tbl[t][i].blocked_until

\* no row created or deleted, no attempt counted, no window moved
NothingRecorded ==
    \A t \in DOMAIN rows :
        /\ Len(rows'[t]) = Len(rows[t])
        /\ \A i \in DOMAIN rows[t] :
            /\ rows'[t][i].first_attempt = rows[t][i].first_attempt
            /\ rows'[t][i].last_attempt = rows[t][i].last_attempt
            /\ rows'[t][i].attempt_count \in {rows[t][i].attempt_count, 0}

\* C10: a login POST made while the key of the client address or the key of
\* the submitted username is blocked for login is answered 429 by the
\* decorator, before the credentials are looked at, and records no attempt;
\* the address is checked first, so a blocked address is the one reported.
C10_BlockedLoginRejected ==
    [][ret'.op = "login" =>
       \A client_ip \in ClientIps, form \in Forms :
          LET ip_key == <<client_ip, "ip", "login">>
              name == Or(form.username, form.email)
              ip_blocked == KeyBlocked(rows, ip_key, now)
              name_blocked ==
                  /\ name # <<>>
                  /\ KeyBlocked(rows, <<name, "username", "login">>, now)
              rejected ==
                  /\ ret'.code = 429
                  /\ ret'.reason \in {"ip_blocked", "username_blocked"}
                  /\ NothingRecorded
                  /\ ip_blocked
                     => /\ ret'.reason = "ip_blocked"
                        /\ ret'.message.text = "location_locked"
                        /\ ret'.status.is_blocked
                        /\ ret'.status.blocked_until \in
                             { rows[ip_key][i].blocked_until :
                               i \in DOMAIN rows[ip_key] }
          IN  (ip_blocked \/ name_blocked)
              => \/ rejected
                 \/ \A captcha_ok \in BOOLEAN, otp_sent \in BOOLEAN :
                       ~LoginPost(client_ip, form, captcha_ok, otp_sent)
      ]_vars

C10_Witness ==
    /\ ret.op = "login"
    /\ ret.code = 429
    /\ ret.reason = "ip_blocked"
    /\ DOMAIN rows = LoginScope
    /\ Len(rows[<<IpAddr, "ip", "login">>]) = 1
    /\ rows[<<IpAddr, "ip", "login">>][1].attempt_count = 5
    /\ now < rows[<<IpAddr, "ip", "login">>][1].blocked_until
    /\ Len(rows[<<NameA, "username", "login">>]) = 1
    /\ rows[<<NameA, "username", "login">>][1].attempt_count = 4
    /\ rows[<<NameA, "username", "login">>][1].blocked_until = None

\* the two keys of a login from the one address by the one user
LoginKeys == {<<IpAddr, "ip", "login">>, <<NameA, "username", "login">>}

\* this step counted one failure on key k: a first row, a restarted window
\* or one more in the open window
FailureAdded(k) ==
    /\ Len(rows[k]) <= 1
    /\ Len(rows'[k]) = 1
    /\ rows'[k][1].last_attempt = now
    /\ IF rows[k] = <<>> \/ now - rows[k][1].first_attempt > 15 * 60
       THEN /\ rows'[k][1].attempt_count = 1
            /\ rows'[k][1].first_attempt = now
       ELSE /\ rows'[k][1].attempt_count = rows[k][1].attempt_count + 1
            /\ rows'[k][1].first_attempt = rows[k][1].first_attempt

\* C11: a login POST that gets as far as the password check records the
\* outcome on the key of the client address and on the key of the username:
\* a wrong credential counts one failure on each, a correct one leaves
\* neither key with a row.
C11_BothKeysRecorded ==
    [][ret'.op = "login" =>
         /\ ret'.reason \in {"wrong_credentials", "now_blocked"}
            => \A k \in LoginKeys : FailureAdded(k)
         /\ ret'.reason \in {"password_ok", "otp_not_sent"}
            => \A k \in LoginKeys : rows'[k] = <<>>
      ]_vars

C11_Witness ==
    /\ ret.op = "login"
    /\ ret.reason = "wrong_credentials"
    /\ DOMAIN rows = LoginKeys
    /\ Len(rows[<<IpAddr, "ip", "login">>]) = 1
    /\ rows[<<IpAddr, "ip", "login">>][1].attempt_count = 3
    /\ rows[<<IpAddr, "ip", "login">>][1].last_attempt = now
    /\ Len(rows[<<NameA, "username", "login">>]) = 1
    /\ rows[<<NameA, "username", "login">>][1].attempt_count = 2
    /\ rows[<<NameA, "username", "login">>][1].last_attempt = now
    /\ rows[<<NameA, "username", "login">>][1].first_attempt < now

\* C12: get_status creates no row, deletes none and leaves attempt_count,
\* first_attempt and last_attempt of every row as they were, except that it
\* sets blocked_until = null and attempt_count = 0 in the row of its triple
\* when that row's blocked_until has elapsed; for a triple without a row it
\* returns 0 used, the limit remaining, not blocked and no blocked_until.
C12_StatusFrame ==
    [][ret'.op = "get_status" =>
         /\ \A u \in DOMAIN rows :
              /\ Len(rows'[u]) = Len(rows[u])
              /\ \A i \in DOMAIN rows[u] :
                   \/ rows'[u][i] = rows[u][i]
                   \/ /\ u = ret'.t
                      /\ rows[u][i].blocked_until # None
                      /\ now >= rows[u][i].blocked_until
                      /\ rows'[u][i] =
                           [attempt_count |-> 0,
                            first_attempt |-> rows[u][i].first_attempt,
                            last_attempt |-> rows[u][i].last_attempt,
                            blocked_until |-> None]
         /\ rows[ret'.t] = <<>>
            => ret'.status =
                 [is_blocked |-> FALSE,
                  attempts_used |-> 0,
                  attempts_remaining |-> TableLimit(EndpointOf(ret'.t)),
                  total_attempts_allowed |-> TableLimit(EndpointOf(ret'.t)),
                  blocked_until |-> None,
                  time_remaining |-> None,
                  time_remaining_minutes |-> None]
      ]_vars

C12_Witness ==
    /\ ret.op = "get_status"
    /\ ret.found # NoRow
    /\ ret.found.attempt_count = 2
    /\ now - ret.found.first_attempt > 15 * 60
    /\ ret.left = ret.found
    /\ rows[ret.t] = <<ret.found>>

\* not yet within reach of the default sweep
Within24Hours(record) == ~(record.last_attempt < now - 24 * 60 * 60)

\* C13: a get_status or record_attempt call on one triple leaves the rows of
\* every other triple as they were, the same identifier under the other
\* identifier_type or under another endpoint included; the one exception is
\* rows that the sweep inside record_attempt removes.
C13_TriplesIndependent ==
    [][ret'.op \in {"get_status", "record_attempt"} =>
         \A u \in DOMAIN rows \ {ret'.t} :
             \/ rows'[u] = rows[u]
             \/ /\ ret'.op = "record_attempt"
                /\ rows'[u] = SelectSeq(rows[u], Within24Hours)
      ]_vars

C13_Witness ==
    /\ FailedCall
    /\ ret.t = <<NameA, "username", "verify_2fa">>
    /\ ret.left.attempt_count = 1
    /\ \E u \in {<<NameA, "ip", "verify_2fa">>, <<NameA, "username", "login">>} :
         /\ u \in DOMAIN rows
         /\ Len(rows[u]) = 1
         /\ rows[u][1].attempt_count >= 3
         /\ rows[u][1].first_attempt < now
    /\ \A u \in DOMAIN rows : Len(rows[u]) = 1

\* the rows of the table, as (triple, index) pairs
RowIds == UNION { {<<u, i>> : i \in DOMAIN rows[u]} : u \in DOMAIN rows }

\* C14: cleanup_old_records(hours_old) deletes exactly the rows whose
\* last_attempt is earlier than now - hours_old hours, returns the number of
\* rows it deleted and leaves every other row as it was; the sweep that
\* record_attempt runs now and then is the one of 24 hours.
C14_CleanupExact ==
    [][/\ ret'.op = "cleanup" =>
            LET cutoff == now - ret'.hours_old * 60 * 60
                Younger(record) == record.last_attempt >= cutoff
            IN  /\ \A u \in DOMAIN rows :
                      rows'[u] = SelectSeq(rows[u], Younger)
                /\ ret'.result =
                      Cardinality({ id \in RowIds :
                          rows[id[1]][id[2]].last_attempt < cutoff })
       /\ ret'.op = "record_attempt" =>
            \A u \in DOMAIN rows \ {ret'.t} :
                \/ rows'[u] = rows[u]
                \/ rows'[u] = SelectSeq(rows[u], Within24Hours)
      ]_vars

C14_Witness ==
    /\ ret.op = "cleanup"
    /\ ret.hours_old = 24
    /\ ret.result = 1
    /\ RecordCount(rows) = 1
    /\ \E u \in DOMAIN rows :
         /\ Len(rows[u]) = 1
         /\ rows[u][1].last_attempt < now
         /\ rows[u][1].last_attempt >= now - 24 * 60 * 60

\* C15: a failed record_attempt that finds a row whose blocked_until lies in
\* the past, or a row whose expired block a status check has reset since
\* (attempt_count 0), leaves attempt_count = 1 and blocked_until = null and
\* returns false, for every endpoint.
C15_ExpiredBlockThenFailure ==
    (/\ FailedCall
     /\ ret.found # NoRow
     /\ \/ ret.found.blocked_until # None /\ ret.found.blocked_until < now
        \/ ret.found.attempt_count = 0)
    => /\ ret.left.attempt_count = 1
       /\ ret.left.blocked_until = None
       /\ ret.result = FALSE

C15_Witness ==
    /\ FailedCall
    /\ ret.found # NoRow
    /\ ret.found.blocked_until # None
    /\ ret.found.blocked_until < now
    /\ ret.found.attempt_count >= Limit(EndpointOf(ret.t))
    /\ ret.left.attempt_count = 1

\* a failure counted after a status check reset the expired block
C15_WitnessAfterStatus ==
    /\ FailedCall
    /\ ret.found # NoRow
    /\ ret.found.attempt_count = 0
    /\ ret.left.attempt_count = 1

\* C16: a failed record_attempt returns true exactly when the row it leaves
\* has a blocked_until, and then a get_status at the same time reports
\* is_blocked = true; a record_attempt with success = true returns false.
C16_ReturnValue ==
    ret.op = "record_attempt"
    => IF ret.success
       THEN ret.result = FALSE
       ELSE /\ ret.result = (ret.left.blocked_until # None)
            /\ \E i \in DOMAIN rows[ret.t] : rows[ret.t][i] = ret.left
            /\ ret.result
               => \A i \in First(rows, ret.t) :
                     StatusResult(rows, ret.t, i, now).is_blocked

C16_Witness ==
    /\ FailedCall
    /\ ret.result
    /\ ret.found # NoRow
    /\ ret.found.blocked_until # None
    /\ now < ret.found.blocked_until
    /\ ret.found.first_attempt < now
    /\ ret.left.blocked_until > ret.found.blocked_until

\* C17: the window is fixed to first_attempt: a failed record_attempt within
\* 15 minutes of first_attempt adds exactly 1 to attempt_count, sets
\* last_attempt = now and keeps first_attempt, and a later one starts a new
\* window however recent the last failure was; so the failures a row counts
\* since it was created all lie within 15 minutes of its first_attempt.
C17_FixedWindow ==
    /\ (FailedCall /\ ret.found # NoRow)
       => IF now - ret.found.first_attempt <= 15 * 60
          THEN /\ ret.left.attempt_count = ret.found.attempt_count + 1
               /\ ret.left.last_attempt = now
               /\ ret.left.first_attempt = ret.found.first_attempt
          ELSE /\ ret.left.attempt_count = 1
               /\ ret.left.first_attempt = now
    /\ \A t \in DOMAIN rows :
          streak[t].n >= 1
          => /\ Len(rows[t]) = 1
             /\ rows[t][1].attempt_count = streak[t].n
             /\ rows[t][1].first_attempt = streak[t].first
             /\ rows[t][1].last_attempt = streak[t].last
             /\ streak[t].last - streak[t].first <= 15 * 60

C17_Witness ==
    /\ FailedCall
    /\ ret.found # NoRow
    /\ ret.found.attempt_count = 2
    /\ ret.found.last_attempt < now
    /\ ret.found.first_attempt < ret.found.last_attempt
    /\ now - ret.found.first_attempt = 15 * 60
    /\ ret.left.attempt_count = 3
    /\ streak[ret.t].n = 3

\* C18: a get_status made more than 15 minutes after the row's first_attempt
\* reports attempts_used = 0 and attempts_remaining = limit and leaves the
\* stored attempt_count as it was, unless it resets an expired block; every
\* status has attempts_remaining = max(0, limit - attempts_used) and
\* 0 <= attempts_remaining <= total_attempts_allowed.
C18_UsedAfterWindow ==
    ret.op = "get_status"
    => LET limit == TableLimit(EndpointOf(ret.t))
           used == ret.status.attempts_used
           remaining == ret.status.attempts_remaining
       IN  /\ ret.status.total_attempts_allowed = limit
           /\ remaining = IF limit - used > 0 THEN limit - used ELSE 0
           /\ 0 <= remaining /\ remaining <= limit
           /\ (ret.found # NoRow /\ now - ret.found.first_attempt > 15 * 60)
              => /\ used = 0
                 /\ remaining = limit
                 /\ \/ ret.left.attempt_count = ret.found.attempt_count
                    \/ /\ ret.found.blocked_until # None
                       /\ now >= ret.found.blocked_until
                       /\ ret.left.attempt_count = 0

C18_Witness ==
    /\ ret.op = "get_status"
    /\ ret.found # NoRow
    /\ now - ret.found.first_attempt > 15 * 60
    /\ ret.found.attempt_count >= Limit(EndpointOf(ret.t))
    /\ ret.status.is_blocked
    /\ ret.status.attempts_used = 0
    /\ ret.left.attempt_count = ret.found.attempt_count

\* C19: a triple gains a row only in a failed record_attempt on that triple
\* made when it has none, and the row created has attempt_count = 1,
\* first_attempt = last_attempt = now and blocked_until = null; get_status
\* and a record_attempt with success = true create nothing.
C19_CreatedByFirstFailure ==
    [][\A t \in DOMAIN rows :
         /\ Len(rows'[t]) > Len(rows[t])
            => /\ ret'.op = "record_attempt"
               /\ ~ret'.success
               /\ ret'.t = t
               /\ rows[t] = <<>>
         /\ (/\ ret'.op = "record_attempt"
             /\ ~ret'.success
             /\ ret'.t = t
             /\ ret'.found = NoRow)
            => rows'[t] = << [attempt_count |-> 1, first_attempt |-> now,
                              last_attempt |-> now, blocked_until |-> None] >>
         /\ (ret'.op = "record_attempt" /\ ret'.success /\ ret'.t = t)
            => rows'[t] = <<>>
         /\ ret'.op = "get_status" => Len(rows'[t]) = Len(rows[t])
      ]_vars

C19_Witness ==
    /\ FailedCall
    /\ ret.found = NoRow
    /\ now > 0
    /\ rows[ret.t] = << [attempt_count |-> 1, first_attempt |-> now,
                         last_attempt |-> now, blocked_until |-> None] >>

\* the status of a key after the call, as a get_status at the same time
\* gives it
KeyStatus(k) ==
    LET i == CHOOSE j \in First(rows, k) : TRUE
    IN  StatusResult(rows, k, i, now)

\* C20: after a failed login, record_login_attempt returns blocked = true
\* with the message of a blocked key and that key's time_remaining_minutes,
\* the username key first when both are blocked; with no key blocked it
\* returns blocked = false, and its message names the attempts remaining
\* whenever the failure left a key with at most 2 attempts remaining and is
\* the generic one otherwise.
C20_LoginFailureMessage ==
    (ret.op = "login" /\ ret.reason \in {"now_blocked", "wrong_credentials"})
    => LET ip == KeyStatus(<<IpAddr, "ip", "login">>)
           user == KeyStatus(<<NameA, "username", "login">>)
       IN  IF user.is_blocked
           THEN /\ ret.reason = "now_blocked"
                /\ ret.message = [text |-> "account_locked",
                                  n |-> user.time_remaining_minutes]
           ELSE IF ip.is_blocked
           THEN /\ ret.reason = "now_blocked"
                /\ ret.message = [text |-> "location_locked",
                                  n |-> ip.time_remaining_minutes]
           ELSE /\ ret.reason = "wrong_credentials"
                /\ IF user.attempts_remaining <= 2
                      \/ ip.attempts_remaining <= 2
                   THEN ret.message.text = "attempts_remaining"
                   ELSE ret.message = [text |-> "invalid_credentials",
                                       n |-> None]


\* C22: in every state reached by get_status, is_blocked, record_attempt and
\* cleanup calls made one after the other, each stored record has
\* blocked_until non-null if and only if its attempt_count >= the limit of
\* its endpoint.
C22_BlockedIffAtLimit ==
    \A t \in DOMAIN rows :
        \A i \in 1..Len(rows[t]) :
            (rows[t][i].blocked_until # None)
                <=> (rows[t][i].attempt_count >= TableLimit(EndpointOf(t)))

C22_Witness ==
    /\ ret.op = "is_blocked"
    /\ ret.found # NoRow
    /\ ret.found.blocked_until # None
    /\ ret.found.attempt_count >= Limit(EndpointOf(ret.t))
    /\ ret.left.blocked_until = None
    /\ ret.left.attempt_count = 0

\* C23: whenever get_status reports is_blocked = true it also reports
\* attempts_remaining = 0, at every moment of the block, also after the
\* 15-minute window has elapsed while the block is still running.
C23_BlockedNothingRemaining ==
    (ret.op = "get_status" /\ ret.status.is_blocked)
        => ret.status.attempts_remaining = 0

\* the rows of a triple whose block is still running at a time
ActiveRows(tbl, t, time) ==
    LET Active(r) == r.blocked_until # None /\ time < r.blocked_until
    IN  SelectSeq(tbl[t], Active)

\* C26: the sweep never deletes a record whose block is still running
\* (blocked_until in the future), whatever the endpoint and the order of the
\* calls: neither the sweep called on its own nor the one a record_attempt
\* may start with.
C26_SweepKeepsActiveBlocks ==
    [][/\ ret'.op = "cleanup"
          => \A t \in DOMAIN rows :
               ActiveRows(rows', t, now) = ActiveRows(rows, t, now)
       /\ ret'.op = "record_attempt"
          => \A t \in DOMAIN rows :
               ActiveRows(MaybeSwept(rows, TRUE, now), t, now)
                  = ActiveRows(rows, t, now)]_vars

C26_Witness ==
    /\ ret.op = "cleanup"
    /\ ret.hours_old = 1
    /\ \E t \in DOMAIN rows :
         /\ ActiveRows(rows, t, now) # <<>>
         /\ \E i \in 1..Len(rows[t]) :
              rows[t][i].first_attempt < now - SecondsPerHour

\* C30: in every reachable state each stored record has attempt_count >= 0
\* and first_attempt <= last_attempt, and whenever its blocked_until is
\* non-null, blocked_until = last_attempt + the block duration of its
\* endpoint.
C30_RecordShape ==
    \A t \in DOMAIN rows :
        \A i \in 1..Len(rows[t]) :
            LET r == rows[t][i]
            IN  /\ r.attempt_count >= 0
                /\ r.first_attempt <= r.last_attempt
                /\ r.blocked_until # None
                   => r.blocked_until
                        = r.last_attempt + TableBlockSeconds(EndpointOf(t))

C30_Witness ==
    /\ ret.op = "record_attempt"
    /\ ~ret.success
    /\ ret.found # NoRow
    /\ ret.found.blocked_until # None
    /\ ret.left.blocked_until # None
    /\ ret.left.blocked_until > ret.found.blocked_until
    /\ ret.left.first_attempt < ret.left.last_attempt

\* C24: the username that rate_limit_check checks on a login POST is the one
\* the route records the failure against, so while the login key of a
\* username is blocked no request naming that username (as typed, with
\* surrounding whitespace, or in the email field) gets as far as the password
\* check.
C24_BlockedNameNeverVerified ==
    [][ret'.op = "login" =>
       \A client_ip \in ClientIps, form \in Forms :
          LET named == Strip(Or(form.username, form.email))
              name_blocked ==
                  /\ named # <<>>
                  /\ KeyBlocked(rows, <<named, "username", "login">>, now)
              same_key == CheckedName(form) = RecordedName(form)
              verified ==
                  ret'.reason \in {"password_ok", "otp_not_sent",
                                   "wrong_credentials", "now_blocked"}
          IN  \/ /\ name_blocked => ~verified
                 /\ verified => same_key
              \/ \A captcha_ok \in BOOLEAN, otp_sent \in BOOLEAN :
                    ~LoginPost(client_ip, form, captcha_ok, otp_sent)
      ]_vars

\* C21: a failed record_attempt that loaded the row before another failure on
\* it was committed, in the same window, writes the count it loaded plus one:
\* the stored attempt_count does not grow, one failure is lost, and the
\* triple stays unblocked after as many failures as the limit.
C21_LostUpdate ==
    [][(/\ ret'.op = "record_attempt"
        /\ ret' # ret
        /\ ret'.found # NoRow
        /\ ret'.before.attempt_count > ret'.found.attempt_count
        /\ now - ret'.found.first_attempt <= 15 * 60)
       => /\ ret'.left.attempt_count = ret'.found.attempt_count + 1
          /\ ret'.left.attempt_count <= ret'.before.attempt_count
          /\ ret'.left.attempt_count < TableLimit(EndpointOf(ret'.t))
             => ret'.left.blocked_until = ret'.before.blocked_until
      ]_vars

C21_Witness ==
    /\ ret.op = "record_attempt"
    /\ streak[RaceKey].n = Limit(EndpointOf(RaceKey))
    /\ now - streak[RaceKey].first <= TimeWindow
    /\ Len(rows[RaceKey]) = 1
    /\ rows[RaceKey][1].first_attempt = streak[RaceKey].first
    /\ rows[RaceKey][1].attempt_count = Limit(EndpointOf(RaceKey)) - 1
    /\ rows[RaceKey][1].blocked_until = None
    /\ \A w \in Workers : pending[w].pc = "idle"

\* C27: when two failed record_attempt calls for a triple without a row both
\* look the row up before either commits, exactly one row for the triple
\* exists afterwards and it counts both failures (attempt_count = 2).
C27_OneRowCountsBoth ==
    (/\ ret.op = "record_attempt"
     /\ ret.found = NoRow
     /\ ret.others > 0
     /\ streak[ret.t].n = 2)
    => /\ Len(rows[ret.t]) = 1
       /\ rows[ret.t][1].attempt_count = 2

\* the rows of a pair that a verify_otp could accept at a time
Verifiable(tbl, email, purpose, time) ==
    { i \in DOMAIN tbl : /\ tbl[i].email = email
                         /\ tbl[i].purpose = purpose
                         /\ ~tbl[i].used
                         /\ time < tbl[i].expires_at }

Unused(tbl, email, purpose) ==
    { i \in DOMAIN tbl : /\ tbl[i].email = email
                         /\ tbl[i].purpose = purpose
                         /\ ~tbl[i].used }

\* C28: at any moment at most one code can verify for an (email, purpose)
\* pair, and it verifies at most once: send_otp_email removes every earlier
\* unused code of the pair before it stores the new one; a verify_otp with
\* the matching unexpired code succeeds and marks it used; after that no
\* verify_otp for the pair succeeds until a new code is sent; a verify_otp
\* with a wrong code leaves the table as it was.
C28_OneCodeOnce ==
    [][/\ \A email \in {UserEmail}, purpose \in Purposes :
            /\ Cardinality(Unused(otps', email, purpose)) <= 1
            /\ (/\ Verifiable(otps, email, purpose, now) = {}
                /\ Verifiable(otps', email, purpose, now') # {})
               => /\ ret'.op = "send_otp_email"
                  /\ ret'.success
                  /\ ret'.email = email /\ ret'.purpose = purpose
       /\ (ret'.op = "send_otp_email" /\ ret'.success)
          => LET Earlier(otp) == /\ otp.email = ret'.email
                                 /\ otp.purpose = ret'.purpose
                                 /\ ~otp.used
                 Others(otp) == ~Earlier(otp)
                 n == Len(otps')
             IN  /\ n >= 1
                 /\ SubSeq(otps', 1, n - 1) = SelectSeq(otps, Others)
                 /\ otps'[n] = [email |-> ret'.email,
                                otp_code |-> ret'.otp_code,
                                purpose |-> ret'.purpose,
                                created_at |-> now,
                                expires_at |-> now + 5 * 60,
                                used |-> FALSE]
       /\ ret'.op = "verify_otp"
          => LET good == { i \in Verifiable(otps, ret'.email, ret'.purpose,
                                            now) :
                             otps[i].otp_code = ret'.entered_otp }
             IN  /\ ret'.valid <=> good # {}
                 /\ ret'.valid
                    => /\ \E i \in good :
                            otps' = [otps EXCEPT ![i].used = TRUE]
                       /\ Verifiable(otps', ret'.email, ret'.purpose, now)
                            = {}
                 /\ ~ret'.valid => otps' = otps
      ]_vars

C28_Witness ==
    /\ ret.op = "verify_otp"
    /\ ~ret.valid
    /\ \E i \in DOMAIN otps :
         /\ otps[i].email = ret.email
         /\ otps[i].purpose = ret.purpose
         /\ otps[i].otp_code = ret.entered_otp
         /\ otps[i].used
         /\ now < otps[i].expires_at
    /\ \E j \in DOMAIN otps :
         /\ otps[j].email = ret.email
         /\ otps[j].purpose = ret.purpose
         /\ otps[j].otp_code # ret.entered_otp
         /\ ~otps[j].used
         /\ now < otps[j].expires_at

\* C25: only the credential check of the login route records attempts: no
\* request to verify_2fa, forgot_password, verify_reset_otp, reset_password
\* or resend_otp creates or changes a row of rate_limits, whatever its
\* outcome (a wrong code included), so the triples of those routes never
\* have a row and their guard never answers 429.
C25_OnlyLoginRecords ==
    [][/\ ret'.op \in GuardedEndpoints
          => /\ rows' = rows
             /\ ret'.code # 429
       /\ ~NothingRecorded
          => /\ ret'.op = "login"
             /\ ret'.reason \in {"password_ok", "otp_not_sent",
                                 "wrong_credentials", "now_blocked"}
       /\ \A t \in DOMAIN rows' :
            EndpointOf(t) \in GuardedEndpoints => rows'[t] = <<>>
      ]_vars

C25_Witness ==
    /\ ret.op = "verify_2fa"
    /\ ret.reason = "invalid_otp"
    /\ ret.code = 200
    /\ denied.endpoint = "verify_2fa"
    /\ denied.n >= Limit("verify_2fa")
    /\ rows[<<IpAddr, "ip", "verify_2fa">>] = <<>>
    /\ rows[<<IpAddr, "ip", "login">>] # <<>>

\* the results stored for a question of an attempt
Stored(res, attempt_id, question_id) ==
    { i \in DOMAIN res : /\ res[i].attempt_id = attempt_id
                         /\ res[i].question_id = question_id }

\* C29: after any sequence of start_quiz, take_quiz, submit_answer and
\* next_question requests: a user has at most one uncompleted attempt per
\* quiz; each question of an attempt has at most one stored result and only
\* questions of the attempt have results; an attempt is completed only once
\* every one of its questions has a result; its score then equals the number
\* of its results with is_correct = true; no result is added after
\* completion.
C29_AttemptInvariants ==
    /\ \A user \in QuizUsers, quiz_id \in QuizIds :
         Cardinality(Ongoing(attempts, user, quiz_id)) <= 1
    /\ \A i \in DOMAIN results :
         /\ results[i].attempt_id \in DOMAIN attempts
         /\ results[i].question_id
              \in Range(attempts[results[i].attempt_id].questions)
         /\ Stored(results, results[i].attempt_id, results[i].question_id)
              = {i}
    /\ \A a \in DOMAIN attempts :
         attempts[a].completed_at # None
         => /\ \A q \in Range(attempts[a].questions) :
                 Stored(results, a, q) # {}
            /\ attempts[a].score
                 = Cardinality({ i \in DOMAIN results :
                                   /\ results[i].attempt_id = a
                                   /\ results[i].is_correct })
    /\ (ret.op = "submit_answer" /\ ret.reason = "saved")
       => /\ results # <<>>
          /\ results[Len(results)].attempt_id = ret.attempt_id
          /\ attempts[ret.attempt_id].completed_at = None

C29_Witness ==
    /\ ret.op = "submit_answer"
    /\ ret.reason = "completed"
    /\ ret.attempt_id \in DOMAIN attempts
    /\ attempts[ret.attempt_id].quiz_id = 1
    /\ attempts[ret.attempt_id].score = 1
    /\ Len(ResultsOf(results, ret.attempt_id)) = 2
    /\ Ongoing(attempts, attempts[ret.attempt_id].user_id, 1) # {}

====
